---- MODULE Spec2Model ----
(***************************************************************************)
(* Pointer-level model of the intrusive doubly linked list (dllist.rs) and *)
(* of the bounded priority queue built on it (bpqueue.rs).                 *)
(*                                                                         *)
(* The heap is a pair of functions next/prev from the addresses of the     *)
(* live Dllink objects to addresses.  The live objects are the caller's    *)
(* nodes, the heads of the queue's bucket lists, the head of one external  *)
(* waiting list, and the queue's sentinel field.                           *)
(***************************************************************************)
EXTENDS Integers, Sequences, FiniteSets, TLC

\* the most nodes a caller owns, and the widest queue two nodes are run on
NumNodes == 2
MaxHigh == 3

\* the most by which the calls of the caller that counts the work on max
\* raise max, all calls together
MaxWork == 5

\* the number of bits of a usize in the model; the indices of every queue
\* of Callers and twice their sum stay far below 2^WordBits, as those of an
\* i32 range stay below the 2^64 of the machine word
WordBits == 8

\* the callers: <<a, b, n>> is a caller that builds BPQueue::new(a, b) and
\* owns n nodes.  The queues of the tests (bpqueue.rs, [-3, 3] and
\* [-10, 10]) are run with one node, a queue of MaxHigh keys with two, and
\* a queue of one key with NumNodes.
Callers ==
    {<<-3, 3, 1>>, <<-10, 10, 1>>, <<0, MaxHigh - 1, 2>>, <<2, 2, NumNodes>>}

VARIABLES
    next,     \* Dllink::next of every live Dllink
    prev,     \* Dllink::prev of every live Dllink
    data0,    \* Dllink::data.0 of the caller's nodes (the internal key)
    max,      \* BPQueue::max
    offset,   \* BPQueue::offset
    high,     \* BPQueue::high
    res,      \* what the last call returned: the node of popleft/pop,
              \* NULL after a call that returns ()
    range,    \* <<a, b>>, the arguments the caller gave to BPQueue::new
    script,   \* the calls of a caller that runs a fixed test, in order
    pc,       \* the number of calls of script already made
    out,      \* the nodes the popleft calls of script returned, in order
    lst,      \* ShiftArray::lst
    start,    \* ShiftArray::start
    current,  \* ShiftArrayIterator::current, NoIter before iter() is called
    cycle,    \* Robin::cycle and the boxes behind it: next and data of
              \* every SlNode
    robin_cur,   \* RobinIterator::cur, NULL before exclude() is called
    robin_stop,  \* RobinIterator::stop
    yielded,  \* the items the iterator has returned in Some, in order
    ended,    \* the iterator has returned None
    raised,   \* the sum of the amounts by which calls have raised max
    lowered   \* the number of times calls have run `self.max -= 1`

params == <<offset, high, range>>
test   == <<script, pc, out>>
wheel  == <<lst, start, current, cycle, robin_cur, robin_stop, yielded, ended>>
work   == <<raised, lowered>>
vars   == <<next, prev, data0, max, offset, high, res, range, script, pc, out,
            lst, start, current, cycle, robin_cur, robin_stop, yielded, ended,
            raised, lowered>>

---------------------------------------------------------------------------
(* usize *)

\* the number of values of a usize
usize_range == 2 ^ WordBits

\* it.data.0 += delta and it.data.0 -= delta in a build without overflow
\* checks; a build with the checks panics where these differ from the sum
\* and the difference
wrapping_add(x, d) == (x + d) % usize_range

wrapping_sub(x, d) == (x - d) % usize_range

---------------------------------------------------------------------------
(* Addresses *)

\* std::ptr::null_mut()
NULL == <<"null", 0>>

\* the i-th Dllink of the caller
node(i) == <<"node", i>>

\* &bucket[i].head
bucket(i) == <<"bucket", i>>

\* &waiting_list.head, a Dllist of the caller outside the queue
waiting_list == <<"list", 0>>

\* a list made by Dllist::new on which clear() is never called
fresh_list == <<"list", 1>>

\* &self.sentinel, the field of the BPQueue the caller holds
sentinel == <<"sentinel", 0>>

\* &res.sentinel inside BPQueue::new, a local of a function that has returned
moved_from == <<"sentinel", 1>>

\* the nodes of the caller
Nodes == DOMAIN data0

\* the Vec with (b - a + 1) lists, without the extra element
Buckets_without_extra(hi) == {bucket(i) : i \in 0..hi}

\* the heads of the Vec bucket, (b - a + 2) lists
Buckets(hi) == {bucket(i) : i \in 0..(hi + 1)}

\* the list heads: every bucket of the queue and the waiting list
Heads == Buckets(high) \cup {waiting_list}

\* the heap as one value, threaded through the calls an operation makes
H == [next |-> next, prev |-> prev]

---------------------------------------------------------------------------
(* Dllink, src/src/dllist.rs *)

\* Dllink::new for every object of objs: both pointers null
\* new that leaves the links pointing at the object itself
Dllink_new_isolated(objs) ==
    [next |-> [x \in objs |-> x], prev |-> [x \in objs |-> x]]

Dllink_new(objs) ==
    [next |-> [x \in objs |-> NULL], prev |-> [x \in objs |-> NULL]]

Dllink_clear(h, self) ==
    [next |-> [h.next EXCEPT ![self] = self],
     prev |-> [h.prev EXCEPT ![self] = self]]

\* lock that writes prev as well
Dllink_lock_both(h, self) ==
    [next |-> [h.next EXCEPT ![self] = self],
     prev |-> [h.prev EXCEPT ![self] = self]]

Dllink_lock(h, self) ==
    [h EXCEPT !.next[self] = self]

Dllink_is_locked(h, self) ==
    h.next[self] = self

Dllink_attach(h, self, nd) ==
    LET s1 == [h  EXCEPT !.next[nd] = h.next[self]]
        s2 == [s1 EXCEPT !.prev[s1.next[self]] = nd]
        s3 == [s2 EXCEPT !.next[self] = nd]
    IN  [s3 EXCEPT !.prev[nd] = self]

\* detach that leaves the node linked where it was
Dllink_detach_nothing(h, self) == h

\* the body of detach after its assert!(!self.is_locked())
Dllink_detach(h, self) ==
    LET n  == h.next[self]
        p  == h.prev[self]
        s1 == [h EXCEPT !.next[p] = n]
    IN  [s1 EXCEPT !.prev[n] = p]

\* the assert at the top of detach
Dllink_detach_asserts(h, self) == ~Dllink_is_locked(h, self)

---------------------------------------------------------------------------
(* Dllist, src/src/dllist.rs; a list is named by the address of its head *)

\* is_empty that compares the two ends of the list
Dllist_is_empty_ends_equal(h, head) ==
    h.next[head] = h.prev[head]

Dllist_is_empty(h, head) ==
    h.next[head] = head

\* clear that resets the head only if no node is linked behind it
Dllist_clear_unless_linked(h, head) ==
    IF h.next[head] \in {NULL, head} THEN Dllink_clear(h, head) ELSE h

Dllist_clear(h, head) ==
    Dllink_clear(h, head)

Dllist_appendleft(h, head, nd) ==
    Dllink_attach(h, head, nd)

\* append that attaches behind the head instead of behind head.prev
Dllist_append_at_front(h, head, nd) ==
    Dllink_attach(h, head, nd)

Dllist_append(h, head, nd) ==
    Dllink_attach(h, h.prev[head], nd)

\* popleft and pop return a node and leave a heap
Dllist_popleft(h, head) ==
    [res |-> h.next[head], heap |-> Dllink_detach(h, h.next[head])]

\* pop that takes the item at head.next
Dllist_pop_first(h, head) ==
    [res |-> h.next[head], heap |-> Dllink_detach(h, h.next[head])]

Dllist_pop(h, head) ==
    [res |-> h.prev[head], heap |-> Dllink_detach(h, h.prev[head])]

\* DllIterator: the items next() yields from cur until it meets link,
\* cut off after fuel items (a list whose links do not close never ends)
RECURSIVE DllIterator(_, _, _, _)
DllIterator(h, link, cur, fuel) ==
    IF cur = link \/ fuel = 0 \/ cur \notin DOMAIN h.next
    THEN <<>>
    ELSE <<cur>> \o DllIterator(h, link, h.next[cur], fuel - 1)

\* an iterator whose cur starts at the head itself
Dllist_iter_from_head(h, head) ==
    DllIterator(h, head, head, high + 4 + Cardinality(Nodes))

\* Dllist::iter_mut collected into a sequence; no walk that ends passes
\* more items than there are objects (high + 4 heads and sentinel, the nodes)
Dllist_iter(h, head) ==
    DllIterator(h, head, h.next[head], high + 4 + Cardinality(Nodes))

---------------------------------------------------------------------------
(* BPQueue, src/src/bpqueue.rs *)

\* assert!(a <= b)
BPQueue_new_asserts(a, b) == a <= b

\* new with offset = a instead of a - 1
BPQueue_new_offset_a(h, a, b, at) ==
    LET hi == b - a + 1
        RECURSIVE clear_all(_, _)
        clear_all(g, i) ==
            IF i > hi + 1 THEN g ELSE clear_all(Dllist_clear(g, bucket(i)), i + 1)
    IN  [max    |-> 0,
         offset |-> a,
         high   |-> hi,
         heap   |-> Dllist_append(clear_all(h, 0), bucket(0), at)]

\* new that leaves max at high
BPQueue_new_max_high(h, a, b, at) ==
    LET hi == b - a + 1
        RECURSIVE clear_all(_, _)
        clear_all(g, i) ==
            IF i > hi + 1 THEN g ELSE clear_all(Dllist_clear(g, bucket(i)), i + 1)
    IN  [max    |-> hi,
         offset |-> a - 1,
         high   |-> hi,
         heap   |-> Dllist_append(clear_all(h, 0), bucket(0), at)]

\* new without res.bucket[0].append(&mut res.sentinel)
BPQueue_new_no_sentinel(h, a, b, at) ==
    LET hi == b - a + 1
        RECURSIVE clear_all(_, _)
        clear_all(g, i) ==
            IF i > hi + 1 THEN g ELSE clear_all(Dllist_clear(g, bucket(i)), i + 1)
    IN  [max    |-> 0,
         offset |-> a - 1,
         high   |-> hi,
         heap   |-> clear_all(h, 0)]

\* BPQueue::new(a, b) after its assert!(a <= b), on a heap h in which the
\* bucket heads and the sentinel are as Dllink::new leaves them.  The
\* sentinel is linked into bucket[0] while it is a field of the local res,
\* at address at.
BPQueue_new(h, a, b, at) ==
    LET hi == b - a + 1
        RECURSIVE clear_all(_, _)
        clear_all(g, i) ==
            IF i > hi + 1 THEN g ELSE clear_all(Dllist_clear(g, bucket(i)), i + 1)
    IN  [max    |-> 0,
         offset |-> a - 1,
         high   |-> hi,
         heap   |-> Dllist_append(clear_all(h, 0), bucket(0), at)]

\* res is returned by value: the sentinel field of the caller's queue holds
\* the bytes of res.sentinel, whose storage at `from` is dead afterwards
\* (from = sentinel: the build constructs res in the caller's place)
move_sentinel(h, from) ==
    [next |-> [x \in (DOMAIN h.next \ {from}) \cup {sentinel} |->
                  IF x = sentinel THEN h.next[from] ELSE h.next[x]],
     prev |-> [x \in (DOMAIN h.prev \ {from}) \cup {sentinel} |->
                  IF x = sentinel THEN h.prev[from] ELSE h.prev[x]]]

BPQueue_is_empty == max = 0

BPQueue_get_max == offset + max

\* the rewind with an if in place of the while
rewind_once(h, m) ==
    IF ~Dllist_is_empty(h, bucket(m)) THEN m
    ELSE IF m = 0 THEN -1
    ELSE m - 1

\* while self.bucket[self.max].is_empty() { self.max -= 1; }
\* -1 stands for the subtraction from max = 0, which no usize holds
RECURSIVE rewind(_, _)
rewind(h, m) ==
    IF ~Dllist_is_empty(h, bucket(m)) THEN m
    ELSE IF m = 0 THEN -1
    ELSE rewind(h, m - 1)

\* while self.max > 0 { self.bucket[self.max].clear(); self.max -= 1; }
RECURSIVE clear_loop(_, _)
clear_loop(h, m) ==
    IF m > 0 THEN clear_loop(Dllist_clear(h, bucket(m)), m - 1) ELSE h

BPQueue_clear ==
    /\ next' = clear_loop(H, max).next
    /\ prev' = clear_loop(H, max).prev
    /\ max' = 0
    /\ res' = NULL
    /\ UNCHANGED <<data0, params>>

\* append that refuses a locked node
BPQueue_append_unlocked_only(it, k) ==
    LET idx == k - offset
        h1  == Dllist_append(H, bucket(idx), it)
    IN  /\ ~Dllink_is_locked(H, it)
        /\ k > offset
        /\ idx <= high + 1
        /\ data0' = [data0 EXCEPT ![it] = idx]
        /\ max' = IF max < idx THEN idx ELSE max
        /\ next' = h1.next
        /\ prev' = h1.prev
        /\ res' = NULL
        /\ UNCHANGED params

BPQueue_append(it, k) ==
    LET idx == k - offset
        h1  == Dllist_append(H, bucket(idx), it)
    IN  /\ k > offset
        /\ idx <= high + 1
        /\ data0' = [data0 EXCEPT ![it] = idx]
        /\ max' = IF max < idx THEN idx ELSE max
        /\ next' = h1.next
        /\ prev' = h1.prev
        /\ res' = NULL
        /\ UNCHANGED params

BPQueue_appendleft(it, k) ==
    LET idx == k - offset
        h1  == Dllist_appendleft(H, bucket(idx), it)
    IN  /\ k > offset
        /\ idx <= high + 1
        /\ data0' = [data0 EXCEPT ![it] = idx]
        /\ max' = IF max < idx THEN idx ELSE max
        /\ next' = h1.next
        /\ prev' = h1.prev
        /\ res' = NULL
        /\ UNCHANGED params

\* appendleft_direct that takes data.0 for the index of the bucket
BPQueue_appendleft_direct_by_index(it) ==
    LET idx == data0[it]
        h1  == Dllist_appendleft(H, bucket(idx), it)
    IN  /\ idx > 0
        /\ idx <= high + 1
        /\ max' = IF max < idx THEN idx ELSE max
        /\ next' = h1.next
        /\ prev' = h1.prev
        /\ res' = NULL
        /\ UNCHANGED <<data0, params>>

\* assert!(it.data.0 as i32 > self.offset); self.appendleft(it, it.data.0 as i32)
BPQueue_appendleft_direct(it) ==
    /\ data0[it] > offset
    /\ BPQueue_appendleft(it, data0[it])

\* popleft that takes the node from the back of bucket[max]
BPQueue_popleft_back ==
    LET r == Dllist_pop(H, bucket(max))
    IN  /\ ~Dllink_is_locked(H, r.res)
        /\ rewind(r.heap, max) >= 0
        /\ res' = r.res
        /\ next' = r.heap.next
        /\ prev' = r.heap.prev
        /\ max' = rewind(r.heap, max)
        /\ UNCHANGED <<data0, params>>

\* popleft without the loop that lowers max
BPQueue_popleft_no_rewind ==
    LET r == Dllist_popleft(H, bucket(max))
    IN  /\ ~Dllink_is_locked(H, r.res)
        /\ res' = r.res
        /\ next' = r.heap.next
        /\ prev' = r.heap.prev
        /\ UNCHANGED <<data0, max, params>>

BPQueue_popleft ==
    LET r == Dllist_popleft(H, bucket(max))
    IN  /\ ~Dllink_is_locked(H, r.res)
        /\ rewind(r.heap, max) >= 0
        /\ res' = r.res
        /\ next' = r.heap.next
        /\ prev' = r.heap.prev
        /\ max' = rewind(r.heap, max)
        /\ UNCHANGED <<data0, params>>

\* detach without the loop that lowers max
BPQueue_detach_no_rewind(it) ==
    LET h1 == Dllink_detach(H, it)
    IN  /\ ~Dllink_is_locked(H, it)
        /\ next' = h1.next
        /\ prev' = h1.prev
        /\ res' = NULL
        /\ UNCHANGED <<data0, max, params>>

\* detach that empties the bucket of the node
BPQueue_detach_bucket(it) ==
    LET h1 == Dllist_clear(H, bucket(data0[it]))
    IN  /\ ~Dllink_is_locked(H, it)
        /\ rewind(h1, max) >= 0
        /\ next' = h1.next
        /\ prev' = h1.prev
        /\ max' = rewind(h1, max)
        /\ res' = NULL
        /\ UNCHANGED <<data0, params>>

BPQueue_detach(it) ==
    LET h1 == Dllink_detach(H, it)
    IN  /\ ~Dllink_is_locked(H, it)
        /\ rewind(h1, max) >= 0
        /\ next' = h1.next
        /\ prev' = h1.prev
        /\ max' = rewind(h1, max)
        /\ res' = NULL
        /\ UNCHANGED <<data0, params>>

\* decrease_key without `if self.max < it.data.0 { self.max = it.data.0 }`
BPQueue_decrease_key_rewind_only(it, delta) ==
    LET h1  == Dllink_detach(H, it)
        idx == wrapping_sub(data0[it], delta)
        h2  == Dllist_append(h1, bucket(idx), it)
    IN  /\ ~Dllink_is_locked(H, it)
        /\ idx > 0
        /\ idx <= high
        /\ data0' = [data0 EXCEPT ![it] = idx]
        /\ next' = h2.next
        /\ prev' = h2.prev
        /\ rewind(h2, max) >= 0
        /\ max' = rewind(h2, max)
        /\ res' = NULL
        /\ UNCHANGED params

BPQueue_decrease_key(it, delta) ==
    LET h1  == Dllink_detach(H, it)
        idx == wrapping_sub(data0[it], delta)
        h2  == Dllist_append(h1, bucket(idx), it)
    IN  /\ ~Dllink_is_locked(H, it)
        /\ idx > 0
        /\ idx <= high
        /\ data0' = [data0 EXCEPT ![it] = idx]
        /\ next' = h2.next
        /\ prev' = h2.prev
        /\ IF max < idx
           THEN max' = idx
           ELSE /\ rewind(h2, max) >= 0
                /\ max' = rewind(h2, max)
        /\ res' = NULL
        /\ UNCHANGED params

\* increase_key that appends the node at the back of its new bucket
BPQueue_increase_key_at_back(it, delta) ==
    LET h1  == Dllink_detach(H, it)
        idx == wrapping_add(data0[it], delta)
        h2  == Dllist_append(h1, bucket(idx), it)
    IN  /\ ~Dllink_is_locked(H, it)
        /\ idx > 0
        /\ idx <= high
        /\ data0' = [data0 EXCEPT ![it] = idx]
        /\ next' = h2.next
        /\ prev' = h2.prev
        /\ max' = IF max < idx THEN idx ELSE max
        /\ res' = NULL
        /\ UNCHANGED params

BPQueue_increase_key(it, delta) ==
    LET h1  == Dllink_detach(H, it)
        idx == wrapping_add(data0[it], delta)
        h2  == Dllist_appendleft(h1, bucket(idx), it)
    IN  /\ ~Dllink_is_locked(H, it)
        /\ idx > 0
        /\ idx <= high
        /\ data0' = [data0 EXCEPT ![it] = idx]
        /\ next' = h2.next
        /\ prev' = h2.prev
        /\ max' = IF max < idx THEN idx ELSE max
        /\ res' = NULL
        /\ UNCHANGED params

\* modify_key without the test of is_locked
BPQueue_modify_key_unchecked(it, delta) ==
    IF delta > 0 THEN BPQueue_increase_key(it, delta)
    ELSE IF delta < 0 THEN BPQueue_decrease_key(it, -delta)
    ELSE res' = NULL /\ UNCHANGED <<next, prev, data0, max, params>>

\* modify_key that passes a delta of 0 on to increase_key
BPQueue_modify_key_zero_moves(it, delta) ==
    IF Dllink_is_locked(H, it)
    THEN res' = NULL /\ UNCHANGED <<next, prev, data0, max, params>>
    ELSE IF delta >= 0 THEN BPQueue_increase_key(it, delta)
    ELSE BPQueue_decrease_key(it, -delta)

BPQueue_modify_key(it, delta) ==
    IF Dllink_is_locked(H, it)
    THEN res' = NULL /\ UNCHANGED <<next, prev, data0, max, params>>
    ELSE IF delta > 0 THEN BPQueue_increase_key(it, delta)
    ELSE IF delta < 0 THEN BPQueue_decrease_key(it, -delta)
    ELSE res' = NULL /\ UNCHANGED <<next, prev, data0, max, params>>

---------------------------------------------------------------------------
(* The caller *)

\* the members of the list with this head, in the order of iteration
Members(head) == Dllist_iter(H, head)

MemberSet(head) ==
    LET m == Members(head) IN {m[j] : j \in 1..Len(m)}

\* the node is linked into the waiting list, resp. into a bucket of the queue
InList(it) == it \in MemberSet(waiting_list)

InQueue(it) == \E i \in 0..(high + 1) : it \in MemberSet(bucket(i))

Resident(it) == InList(it) \/ InQueue(it)

\* the external keys of the queue, a..b
Keys == (offset + 1)..(offset + high)

\* the state after Dllink::new((0, v)) for every node of the caller,
\* Dllist::new followed by clear() for the waiting list, Dllist::new alone
\* for fresh_list, and BPQueue::new(a, b)
setup(c, at) ==
    LET its == {node(i) : i \in 1..c[3]}
        h0  == Dllink_new(its \cup Buckets(c[2] - c[1] + 1)
                              \cup {waiting_list, fresh_list, at})
        h1  == Dllist_clear(h0, waiting_list)
        q   == BPQueue_new(h1, c[1], c[2], at)
        h2  == move_sentinel(q.heap, at)
    IN  /\ BPQueue_new_asserts(c[1], c[2])
        /\ next = h2.next
        /\ prev = h2.prev
        /\ max = q.max
        /\ offset = q.offset
        /\ high = q.high
        /\ range = <<c[1], c[2]>>
        /\ data0 = [it \in its |-> 0]
        /\ res = NULL

\* no ShiftArray and no Robin is in use
\* no work on max has been counted
no_work ==
    /\ raised = 0
    /\ lowered = 0

no_wheel ==
    /\ lst = <<>>
    /\ start = 0
    /\ current = -1
    /\ cycle = [next |-> <<>>, data |-> <<>>]
    /\ robin_cur = NULL
    /\ robin_stop = NULL
    /\ yielded = <<>>
    /\ ended = FALSE

Init ==
    /\ \E c \in Callers, at \in {sentinel, moved_from} : setup(c, at)
    /\ script = <<>>
    /\ pc = 0
    /\ out = <<>>
    /\ no_wheel
    /\ no_work

\* bpq.append(&mut it, k) with a node that is in no list and a key of a..b
QAppend ==
    /\ \E it \in Nodes, k \in Keys : ~Resident(it) /\ BPQueue_append(it, k)
    /\ UNCHANGED <<test, wheel, work>>

QAppendLeft ==
    /\ \E it \in Nodes, k \in Keys : ~Resident(it) /\ BPQueue_appendleft(it, k)
    /\ UNCHANGED <<test, wheel, work>>

\* bpq.appendleft_direct(&mut it) with a node that is in no list and whose
\* data.0 is a key of a..b
QAppendLeftDirect ==
    /\ \E it \in Nodes :
          ~Resident(it) /\ data0[it] \in Keys /\ BPQueue_appendleft_direct(it)
    /\ UNCHANGED <<test, wheel, work>>

\* bpq.popleft() on a queue that is not empty
QPopLeft ==
    /\ ~BPQueue_is_empty
    /\ BPQueue_popleft
    /\ UNCHANGED <<test, wheel, work>>

\* bpq.detach(&mut it) with a node of the queue
QDetach ==
    /\ \E it \in Nodes : InQueue(it) /\ BPQueue_detach(it)
    /\ UNCHANGED <<test, wheel, work>>

\* the key operations, on a node of the queue or of the waiting list, with
\* a delta that leaves the index inside 1..high
QIncreaseKey ==
    \E it \in Nodes, delta \in 0..high :
        /\ Resident(it)
        /\ data0[it] + delta \in 1..high
        /\ BPQueue_increase_key(it, delta)
        /\ UNCHANGED <<test, wheel, work>>

QDecreaseKey ==
    \E it \in Nodes, delta \in 0..high :
        /\ Resident(it)
        /\ data0[it] - delta \in 1..high
        /\ BPQueue_decrease_key(it, delta)
        /\ UNCHANGED <<test, wheel, work>>

\* bpq.modify_key(&mut it, delta) on a locked node, or as the key operations
QModifyKey ==
    \E it \in Nodes, delta \in (0 - high)..high :
        /\ Dllink_is_locked(H, it)
           \/ (Resident(it) /\ (delta = 0 \/ data0[it] + delta \in 1..high))
        /\ BPQueue_modify_key(it, delta)
        /\ UNCHANGED <<test, wheel, work>>

QClear ==
    BPQueue_clear /\ UNCHANGED <<test, wheel, work>>

\* waiting_list.append(&mut it) with a node that is in no list
ListAppend ==
    \E it \in Nodes :
        /\ ~Resident(it)
        /\ next' = Dllist_append(H, waiting_list, it).next
        /\ prev' = Dllist_append(H, waiting_list, it).prev
        /\ res' = NULL
        /\ UNCHANGED <<data0, max, params, test, wheel, work>>

ListAppendLeft ==
    \E it \in Nodes :
        /\ ~Resident(it)
        /\ next' = Dllist_appendleft(H, waiting_list, it).next
        /\ prev' = Dllist_appendleft(H, waiting_list, it).prev
        /\ res' = NULL
        /\ UNCHANGED <<data0, max, params, test, wheel, work>>

\* waiting_list.popleft() and pop() on a list that is not empty
ListPopLeft ==
    LET r == Dllist_popleft(H, waiting_list)
    IN  /\ ~Dllist_is_empty(H, waiting_list)
        /\ ~Dllink_is_locked(H, r.res)
        /\ res' = r.res
        /\ next' = r.heap.next
        /\ prev' = r.heap.prev
        /\ UNCHANGED <<data0, max, params, test, wheel, work>>

ListPop ==
    LET r == Dllist_pop(H, waiting_list)
    IN  /\ ~Dllist_is_empty(H, waiting_list)
        /\ ~Dllink_is_locked(H, r.res)
        /\ res' = r.res
        /\ next' = r.heap.next
        /\ prev' = r.heap.prev
        /\ UNCHANGED <<data0, max, params, test, wheel, work>>

ListClear ==
    /\ next' = Dllist_clear(H, waiting_list).next
    /\ prev' = Dllist_clear(H, waiting_list).prev
    /\ res' = NULL
    /\ UNCHANGED <<data0, max, params, test, wheel, work>>

\* it.detach() on a node of the waiting list
\* it.detach() without its assert
Detach_unchecked(it) ==
    /\ next' = Dllink_detach(H, it).next
    /\ prev' = Dllink_detach(H, it).prev
    /\ res' = NULL
    /\ UNCHANGED <<data0, max, params>>

\* it.detach()
Detach(it) ==
    /\ Dllink_detach_asserts(H, it)
    /\ next' = Dllink_detach(H, it).next
    /\ prev' = Dllink_detach(H, it).prev
    /\ res' = NULL
    /\ UNCHANGED <<data0, max, params>>

NodeDetach ==
    \E it \in Nodes :
        /\ InList(it)
        /\ Detach(it)
        /\ UNCHANGED <<test, wheel, work>>

\* it.lock() and it.clear() on a node that is in no list
NodeLock ==
    \E it \in Nodes :
        /\ ~Resident(it)
        /\ next' = Dllink_lock(H, it).next
        /\ prev' = Dllink_lock(H, it).prev
        /\ res' = NULL
        /\ UNCHANGED <<data0, max, params, test, wheel, work>>

NodeClear ==
    \E it \in Nodes :
        /\ ~Resident(it)
        /\ next' = Dllink_clear(H, it).next
        /\ prev' = Dllink_clear(H, it).prev
        /\ res' = NULL
        /\ UNCHANGED <<data0, max, params, test, wheel, work>>

Next ==
    \/ QAppend
    \/ QAppendLeft
    \/ QAppendLeftDirect
    \/ QPopLeft
    \/ QDetach
    \/ QIncreaseKey
    \/ QDecreaseKey
    \/ QModifyKey
    \/ QClear
    \/ ListAppend
    \/ ListAppendLeft
    \/ ListPopLeft
    \/ ListPop
    \/ ListClear
    \/ NodeDetach
    \/ NodeLock
    \/ NodeClear

Spec == Init /\ [][Next]_vars

\* a caller that uses its nodes through the methods of the queue only
NextQueue ==
    \/ QAppend
    \/ QAppendLeft
    \/ QAppendLeftDirect
    \/ QPopLeft
    \/ QDetach
    \/ QIncreaseKey
    \/ QDecreaseKey
    \/ QModifyKey
    \/ QClear

SpecQueue == Init /\ [][NextQueue]_vars

---------------------------------------------------------------------------
(* Link consistency *)

\* n.next.prev == n and n.prev.next == n
Linked(n) ==
    /\ next[n] \in DOMAIN prev
    /\ prev[n] \in DOMAIN next
    /\ prev[next[n]] = n
    /\ next[prev[n]] = n

\* every member of every list (bucket or waiting list) is linked
LinkInv ==
    \A head \in Heads : \A n \in MemberSet(head) : Linked(n)

\* every list is a closed ring: its head is linked as well (the head of
\* bucket[0] when what it points to is a live object)
RingInv ==
    \A head \in Heads :
        /\ next[head] \in DOMAIN next => Linked(head)
        /\ \A n \in MemberSet(head) : Linked(n)

---------------------------------------------------------------------------
(* A caller that also calls lock() and clear() on a node that is linked    *)
(* into a list, as test_bpqueue4 does with a.lock()                        *)

MemberLock ==
    \E it \in Nodes :
        /\ Resident(it)
        /\ next' = Dllink_lock(H, it).next
        /\ prev' = Dllink_lock(H, it).prev
        /\ res' = NULL
        /\ UNCHANGED <<data0, max, params, test, wheel, work>>

MemberClear ==
    \E it \in Nodes :
        /\ Resident(it)
        /\ next' = Dllink_clear(H, it).next
        /\ prev' = Dllink_clear(H, it).prev
        /\ res' = NULL
        /\ UNCHANGED <<data0, max, params, test, wheel, work>>

\* bpq.modify_key(&mut a, delta) on the locked node, linked or not
LockedModifyKey ==
    \E it \in Nodes, delta \in (0 - high)..high :
        /\ Dllink_is_locked(H, it)
        /\ BPQueue_modify_key(it, delta)
        /\ UNCHANGED <<test, wheel, work>>

\* the caller goes on while every list is a closed ring; modify_key on a
\* locked node is called in every state
NextLock ==
    \/ RingInv /\ Next
    \/ RingInv /\ MemberLock
    \/ RingInv /\ MemberClear
    \/ LockedModifyKey

SpecLock == Init /\ [][NextLock]_vars

---------------------------------------------------------------------------
(* A caller that runs one fixed sequence of calls on a fresh queue, as the *)
(* tests of bpqueue.rs do                                                  *)

\* the queues of the tests with NumNodes nodes (one for [-10, 10]), and a
\* queue of MaxHigh keys
TestCallers ==
    {<<-3, 3, NumNodes>>, <<-10, 10, 1>>, <<0, MaxHigh - 1, NumNodes>>}

call(op, it, k) == [op |-> op, it |-> it, k |-> k]

\* bpq.append(&mut node(j), ks[j]) (or appendleft) for j = 1, 2, ...
appends(op, ks) == [j \in 1..Len(ks) |-> call(op, node(j), ks[j])]

\* n times bpq.popleft()
pops(n) == [j \in 1..n |-> call("popleft", NULL, 0)]

\* the strictly increasing sequences of at most n keys of a..b
RECURSIVE increasing(_, _, _)
increasing(a, b, n) ==
    IF n = 0 THEN {<<>>}
    ELSE LET shorter == increasing(a, b, n - 1)
         IN  shorter \cup
             {Append(x[1], x[2]) :
                 x \in {y \in shorter \X (a..b) :
                           y[1] = <<>> \/ y[2] > y[1][Len(y[1])]}}

\* appends with strictly increasing keys, then as many popleft
tests_increasing(c) ==
    {appends("append", ks) \o pops(Len(ks)) :
        ks \in increasing(c[1], c[2], c[3]) \ {<<>>}}

\* m nodes put in with one key, all by append or all by appendleft, then
\* m popleft
tests_equal(c) ==
    {appends(x[1], [j \in 1..x[2] |-> x[3]]) \o pops(x[2]) :
        x \in {"append", "appendleft"} \X (2..c[3]) \X (c[1]..c[2])}

\* one node put in with key 0, raised by 1, lowered by 1, and detached
test_keys ==
    << call("append", node(1), 0), call("increase_key", node(1), 1),
       call("decrease_key", node(1), 1), call("detach", node(1), 0) >>

tests(c) ==
    tests_increasing(c) \cup tests_equal(c)
        \cup (IF 0 \in c[1]..(c[2] - 1) THEN {test_keys} ELSE {})

InitTest ==
    /\ \E c \in TestCallers, at \in {sentinel, moved_from} :
          setup(c, at) /\ script \in tests(c)
    /\ pc = 0
    /\ out = <<>>
    /\ no_wheel
    /\ no_work

\* the next call of the script
cur == script[pc + 1]

CallAppend ==
    /\ pc < Len(script)
    /\ cur.op = "append"
    /\ BPQueue_append(cur.it, cur.k)
    /\ pc' = pc + 1
    /\ UNCHANGED <<script, out, wheel, work>>

CallAppendLeft ==
    /\ pc < Len(script)
    /\ cur.op = "appendleft"
    /\ BPQueue_appendleft(cur.it, cur.k)
    /\ pc' = pc + 1
    /\ UNCHANGED <<script, out, wheel, work>>

CallPopLeft ==
    /\ pc < Len(script)
    /\ cur.op = "popleft"
    /\ BPQueue_popleft
    /\ out' = Append(out, res')
    /\ pc' = pc + 1
    /\ UNCHANGED <<script, wheel, work>>

CallIncreaseKey ==
    /\ pc < Len(script)
    /\ cur.op = "increase_key"
    /\ BPQueue_increase_key(cur.it, cur.k)
    /\ pc' = pc + 1
    /\ UNCHANGED <<script, out, wheel, work>>

CallDecreaseKey ==
    /\ pc < Len(script)
    /\ cur.op = "decrease_key"
    /\ BPQueue_decrease_key(cur.it, cur.k)
    /\ pc' = pc + 1
    /\ UNCHANGED <<script, out, wheel, work>>

CallDetach ==
    /\ pc < Len(script)
    /\ cur.op = "detach"
    /\ BPQueue_detach(cur.it)
    /\ pc' = pc + 1
    /\ UNCHANGED <<script, out, wheel, work>>

NextTest ==
    \/ CallAppend
    \/ CallAppendLeft
    \/ CallPopLeft
    \/ CallIncreaseKey
    \/ CallDecreaseKey
    \/ CallDetach

SpecTest == InitTest /\ [][NextTest]_vars

---------------------------------------------------------------------------
(* Claims *)

\* C1: after every operation of Dllink, Dllist and BPQueue, lock() and
\* clear() included, every node n that is reachable from the head of a list
\* has n.next.prev == n and n.prev.next == n.
C1_AsStated == LinkInv

---------------------------------------------------------------------------
(* What a heap holds, read off by iteration *)

elems(m) == {m[j] : j \in 1..Len(m)}

\* the sequence m without the item x
without(m, x) == SelectSeq(m, LAMBDA y : y # x)

\* the indices in 1..high of the buckets that hold a node
occupied(h) == {i \in 1..high : Dllist_iter(h, bucket(i)) # <<>>}

\* the largest of them, 0 when there is none
highest(h) ==
    IF occupied(h) = {} THEN 0
    ELSE CHOOSE i \in occupied(h) : \A j \in occupied(h) : j <= i

\* the caller's nodes that are in a bucket of the queue
queued(h) ==
    {n \in Nodes : \E i \in 0..(high + 1) : n \in elems(Dllist_iter(h, bucket(i)))}

\* C2: in every state max is the largest index in 1..high of a bucket that
\* holds a node, 0 when no bucket of 1..high holds one, and is_empty() is
\* true exactly when no bucket of 1..high holds a node.
C2_MaxIsHighest ==
    /\ max = highest(H)
    /\ BPQueue_is_empty <=> (occupied(H) = {})

\* popleft has just lowered max over an empty bucket to a lower one that
\* holds a node
C2_Witness ==
    /\ res \in Nodes
    /\ ~Resident(res)
    /\ max >= 1
    /\ data0[res] > max + 1
    /\ Members(bucket(max)) # <<>>

\* C3: popleft() on a queue that is not empty returns the front node of
\* bucket[max]; the external key of that node is get_max() as it was before
\* the call and is not below the key of any node of the queue; afterwards
\* the node is in no bucket and max is the largest index of a bucket that
\* holds a node, 0 when there is none.
C3_PopsFront ==
    [][(~BPQueue_is_empty /\ BPQueue_popleft) =>
          LET m == Members(bucket(max))
          IN  /\ m # <<>>
              /\ res' = m[1]
              /\ offset + data0[m[1]] = BPQueue_get_max
              /\ \A n \in queued(H) : offset + data0[n] <= offset + data0[m[1]]
              /\ m[1] \notin queued(H')
              /\ queued(H') = queued(H) \ {m[1]}
              /\ max' = highest(H')]_vars

\* a node has been popped from the front of a bucket in which a node of the
\* same key stays behind
C3_Witness ==
    /\ res \in Nodes
    /\ ~Resident(res)
    /\ max = data0[res]
    /\ \E n \in Nodes : InQueue(n) /\ data0[n] = data0[res]

\* the script appends n >= 1 nodes with strictly increasing keys and then
\* calls popleft n times
IncreasingTest ==
    LET n == Len(script) \div 2
    IN  /\ n >= 1
        /\ Len(script) = 2 * n
        /\ \A j \in 1..n : script[j].op = "append" /\ script[n + j].op = "popleft"
        /\ \A j \in 1..(n - 1) : script[j].k < script[j + 1].k

\* C4: when n >= 1 nodes are appended to a fresh queue with strictly
\* increasing keys of a..b, every one of the n calls of popleft that follow
\* completes, the j-th of them returns the node appended j-th from last with
\* the key it was appended with, so that the keys come out strictly
\* descending, and after the n-th the queue is_empty() and get_max() is a - 1.
C4_Descending ==
    IncreasingTest =>
        LET n == Len(script) \div 2
        IN  /\ pc < Len(script) => ENABLED NextTest
            /\ Len(out) = IF pc > n THEN pc - n ELSE 0
            /\ \A j \in 1..Len(out) :
                  /\ out[j] = script[n + 1 - j].it
                  /\ offset + data0[out[j]] = script[n + 1 - j].k
            /\ \A j \in 1..(Len(out) - 1) :
                  offset + data0[out[j]] > offset + data0[out[j + 1]]
            /\ pc = Len(script) =>
                  BPQueue_is_empty /\ BPQueue_get_max = range[1] - 1

\* two or more nodes, the first with key a and the last with key b, have
\* been appended and popped again
C4_Witness ==
    /\ IncreasingTest
    /\ Len(script) >= 4
    /\ pc = Len(script)
    /\ script[1].k = range[1]
    /\ script[Len(script) \div 2].k = range[2]

\* the script puts n >= 2 nodes in with one key, all by op, and then calls
\* popleft n times
EqualTest(op) ==
    LET n == Len(script) \div 2
    IN  /\ n >= 2
        /\ Len(script) = 2 * n
        /\ \A j \in 1..n :
              /\ script[j].op = op
              /\ script[j].k = script[1].k
              /\ script[n + j].op = "popleft"

\* C5: nodes of one key that were put in by append are returned by popleft
\* in the order they were put in; nodes of one key that were put in by
\* appendleft are returned in the reverse of that order; every popleft
\* completes.
C5_TieOrder ==
    LET n == Len(script) \div 2
    IN  /\ EqualTest("append") =>
              /\ pc < Len(script) => ENABLED NextTest
              /\ Len(out) = (IF pc > n THEN pc - n ELSE 0)
              /\ \A j \in 1..Len(out) : out[j] = script[j].it
        /\ EqualTest("appendleft") =>
              /\ pc < Len(script) => ENABLED NextTest
              /\ Len(out) = (IF pc > n THEN pc - n ELSE 0)
              /\ \A j \in 1..Len(out) : out[j] = script[n + 1 - j].it

\* nodes put in by appendleft with one key have all been popped
C5_Witness ==
    /\ EqualTest("appendleft")
    /\ pc = Len(script)
    /\ Len(out) >= 2

\* C6: increase_key(n, delta) on a node of a list, with idx + delta in
\* 1..high, leaves n at the front of bucket[idx + delta], before the nodes
\* that were in that bucket, whose order stays; decrease_key(n, delta), with
\* idx - delta in 1..high, leaves n at the back of bucket[idx - delta], behind
\* the nodes that were in it.
C6_KeyOrder ==
    [][\A it \in Nodes, delta \in 0..high :
          /\ (BPQueue_increase_key(it, delta) /\ Resident(it)) =>
                Dllist_iter(H', bucket(data0[it] + delta))
                    = <<it>> \o without(Members(bucket(data0[it] + delta)), it)
          /\ (BPQueue_decrease_key(it, delta) /\ Resident(it)) =>
                Dllist_iter(H', bucket(data0[it] - delta))
                    = without(Members(bucket(data0[it] - delta)), it) \o <<it>>]_vars

\* the node appended second stands before the node appended first in a
\* bucket that is not the lowest
C6_Witness ==
    /\ res = NULL
    /\ \E i \in 2..high : Members(bucket(i)) = <<node(2), node(1)>>

\* C7: modify_key(n, delta) on a locked node n returns, for every delta,
\* and leaves the pointers of every object, the stored keys, max and the
\* parameters of the queue as they were.
C7_LockedNoOp ==
    \A it \in Nodes, delta \in (0 - high)..high :
        Dllink_is_locked(H, it) =>
            ENABLED (/\ BPQueue_modify_key(it, delta)
                     /\ UNCHANGED <<next, prev, data0, max, offset, high>>)

\* a node is locked while it is linked into a bucket of the queue
C7_Witness ==
    \E it \in Nodes :
        /\ Dllink_is_locked(H, it)
        /\ \E i \in 1..high : next[bucket(i)] = it

\* C8: on a node n of a list that is not locked, modify_key(n, 0) leaves the
\* pointers of every object, the stored keys and max as they were, a
\* modify_key(n, delta) with delta > 0 is a step of increase_key(n, delta),
\* and one with delta < 0 is a step of decrease_key(n, -delta).
C8_ModifyKey ==
    [][\A it \in Nodes, delta \in (0 - high)..high :
          (BPQueue_modify_key(it, delta) /\ ~Dllink_is_locked(H, it) /\ Resident(it)) =>
              IF delta = 0
              THEN UNCHANGED <<next, prev, data0, max, offset, high>>
              ELSE IF delta > 0
              THEN BPQueue_increase_key(it, delta)
              ELSE BPQueue_decrease_key(it, 0 - delta)]_vars

\* an unlocked node stands behind another node in a bucket of the queue
C8_Witness ==
    \E it \in Nodes, i \in 1..high :
        /\ Len(Members(bucket(i))) >= 2
        /\ Members(bucket(i))[2] = it
        /\ ~Dllink_is_locked(H, it)

\* C9: on a queue over [-3, 3], append(A, 0) leaves A with index 4, max = 4
\* and get_max() = 0; increase_key(A, 1) then leaves index 5, max = 5 and
\* get_max() = 1; decrease_key(A, 1) then leaves index 4, max = 4 and
\* get_max() = 0; detach(A) then leaves max = 0, is_empty() true and
\* get_max() = -4.  Every one of the four calls completes.
C9_Scenario ==
    (script = test_keys /\ range = <<-3, 3>>) =>
        /\ pc < Len(script) => ENABLED NextTest
        /\ pc = 1 => data0[node(1)] = 4 /\ max = 4 /\ BPQueue_get_max = 0
        /\ pc = 2 => data0[node(1)] = 5 /\ max = 5 /\ BPQueue_get_max = 1
        /\ pc = 3 => data0[node(1)] = 4 /\ max = 4 /\ BPQueue_get_max = 0
        /\ pc = 4 => max = 0 /\ BPQueue_is_empty /\ BPQueue_get_max = -4

\* the four calls have been made on the queue over [-3, 3]
C9_Witness ==
    /\ script = test_keys
    /\ range = <<-3, 3>>
    /\ pc = 4

\* C10: in every state get_max() is (a - 1) + max for the queue built by
\* new(a, b); a queue that holds no node, fresh or emptied, returns a - 1,
\* which is -4 over [-3, 3] and -11 over [-10, 10].
C10_GetMax ==
    /\ BPQueue_get_max = (range[1] - 1) + max
    /\ queued(H) = {} => BPQueue_get_max = range[1] - 1
    /\ (queued(H) = {} /\ range = <<-3, 3>>) => BPQueue_get_max = -4
    /\ (queued(H) = {} /\ range = <<-10, 10>>) => BPQueue_get_max = -11

\* the queue over [-10, 10] has been emptied by popleft
C10_Witness ==
    /\ range = <<-10, 10>>
    /\ res \in Nodes
    /\ queued(H) = {}
    /\ max = 0

\* C11: BPQueue::new(low, high) aborts whenever low > high; for low <= high
\* the queue it returns has max = 0, every bucket of 1..high empty, and the
\* sentinel of the queue linked in bucket 0 as its only member.
C11_AsStated ==
    /\ \A a \in -1..1, b \in -1..1 : a > b => ~BPQueue_new_asserts(a, b)
    /\ pc = 0 =>
          /\ max = 0
          /\ \A i \in 1..high : Dllist_is_empty(H, bucket(i))
          /\ Members(bucket(0)) = <<sentinel>>
          /\ next[bucket(0)] = sentinel /\ prev[bucket(0)] = sentinel
          /\ next[sentinel] = bucket(0) /\ prev[sentinel] = bucket(0)

\* the heads of the bucket lists among the live objects
bucket_heads == {x \in DOMAIN next : x[1] = "bucket"}

C13_AsStated ==
    /\ \A it \in Nodes, delta \in 0..(usize_range - 1) :
          /\ (Resident(it) /\ delta >= data0[it]) =>
                ~ENABLED BPQueue_decrease_key(it, delta)
          /\ (Resident(it) /\ data0[it] + delta > high) =>
                ~ENABLED BPQueue_increase_key(it, delta)
    /\ \A n \in queued(H) : data0[n] \in 1..high
    /\ Nodes \cap (MemberSet(bucket(0)) \cup MemberSet(bucket(high + 1))) = {}

C15_AsStated ==
    /\ Members(bucket(0)) = <<sentinel>>
    /\ next[sentinel] = bucket(0)
    /\ prev[sentinel] = bucket(0)

\* C16: in every state 0 <= max <= high and bucket 0 is not empty, so the
\* loop that lowers max stops at index 0 at the latest, from whatever index
\* it starts, without subtracting from 0; popleft on a queue that is not
\* empty, detach of a node of the queue and decrease_key to an index of
\* 1..high therefore return.
C16_NoUnderflow ==
    /\ max \in 0..high
    /\ ~Dllist_is_empty(H, bucket(0))
    /\ \A m \in 0..high : rewind(H, m) \in 0..m
    /\ ~BPQueue_is_empty => ENABLED BPQueue_popleft
    /\ \A it \in queued(H) : ENABLED BPQueue_detach(it)
    /\ \A it \in Nodes, delta \in 0..high :
          (Resident(it) /\ data0[it] - delta \in 1..high) =>
              ENABLED BPQueue_decrease_key(it, delta)

\* popleft has taken the only node from bucket high and lowered max to 0
C16_Witness ==
    /\ high >= 2
    /\ res \in Nodes
    /\ data0[res] = high
    /\ queued(H) = {}
    /\ max = 0

\* the lists (buckets and waiting list) that reach the node from their head
lists_of(it) == {h \in Heads : it \in MemberSet(h)}

\* C17: with append and appendleft applied only to nodes that are in no
\* list, every node is a member of at most one list, the buckets and the
\* waiting list taken together, and occurs once in it; a node of the queue
\* is in the bucket of its stored index and nowhere else, also after it was
\* taken out by popleft or detach and appended again.
C17_OneList ==
    /\ \A it \in Nodes : Cardinality(lists_of(it)) <= 1
    /\ \A h \in Heads : Cardinality(MemberSet(h)) = Len(Members(h))
    /\ \A it \in Nodes : InQueue(it) => lists_of(it) = {bucket(data0[it])}
    /\ \A it \in Nodes : InList(it) => lists_of(it) = {waiting_list}

\* a node that was in the queue is now in the waiting list and another in
\* a bucket
C17_Witness ==
    /\ \E it \in Nodes : InList(it) /\ data0[it] >= 1
    /\ \E it \in Nodes : InQueue(it)

\* C18 (as stated): a node from Dllink::new has next = prev = itself and
\* is_locked() true, and a list from Dllist::new is empty without clear().
C18_AsStated ==
    /\ pc = 0 => \A n \in Nodes :
          next[n] = n /\ prev[n] = n /\ Dllink_is_locked(H, n)
    /\ Dllist_is_empty(H, fresh_list)

\* C18: a node from Dllink::new has null next and prev pointers and
\* is_locked() is false for it; the head of a list from Dllist::new has
\* null pointers as well, so is_empty() is false for the list as long as
\* clear() has not been called on it.
C18_NewIsNull ==
    /\ pc = 0 => \A n \in Nodes :
          next[n] = NULL /\ prev[n] = NULL /\ ~Dllink_is_locked(H, n)
    /\ next[fresh_list] = NULL
    /\ prev[fresh_list] = NULL
    /\ ~Dllist_is_empty(H, fresh_list)

\* right after construction: the nodes and the list without clear() next to
\* the list on which clear() was called
C18_Witness ==
    /\ pc = 0
    /\ Len(script) > 0
    /\ \E n \in Nodes : next[n] = NULL
    /\ ~Dllist_is_empty(H, fresh_list)
    /\ Dllist_is_empty(H, waiting_list)

\* C19 (as stated): whatever the state of the node, after lock() both
\* n.next == n and n.prev == n hold, is_locked() is true and a second
\* lock() changes nothing.
C19_AsStated ==
    \A it \in Nodes :
        LET g == Dllink_lock(H, it)
        IN  /\ g.next[it] = it
            /\ g.prev[it] = it
            /\ Dllink_is_locked(g, it)
            /\ Dllink_lock(g, it) = g

\* C19: whatever the state of the node (fresh, cleared, locked, linked in
\* a list), after lock() n.next == n holds and is_locked() is true, n.prev
\* and every other pointer are what they were before the call, and a
\* second lock() changes nothing.
C19_LockSetsNext ==
    \A it \in Nodes :
        LET g == Dllink_lock(H, it)
        IN  /\ g.next[it] = it
            /\ g.prev = prev
            /\ \A x \in DOMAIN next \ {it} : g.next[x] = next[x]
            /\ Dllink_is_locked(g, it)
            /\ Dllink_lock(g, it) = g

\* lock() has acted on a node fresh from new and on a node linked in a
\* bucket: both are locked, with prev null and prev in the list
C19_Witness ==
    /\ \E it \in Nodes :
          Dllink_is_locked(H, it) /\ prev[it] = NULL
    /\ \E it \in Nodes :
          Dllink_is_locked(H, it) /\ prev[it] \notin {NULL, it}

\* C20: whatever the state of a node (fresh, locked, linked in a list),
\* after Dllink::clear() n.next == n == n.prev holds and is_locked() is
\* true; whatever the state of a list, after Dllist::clear() its head
\* satisfies the same and is_empty() is true.
C20_ClearIsolates ==
    /\ \A it \in Nodes :
          LET g == Dllink_clear(H, it)
          IN  /\ g.next[it] = it
              /\ g.prev[it] = it
              /\ Dllink_is_locked(g, it)
    /\ \A head \in Heads \cup {fresh_list} :
          LET g == Dllist_clear(H, head)
          IN  /\ g.next[head] = head
              /\ g.prev[head] = head
              /\ Dllist_is_empty(g, head)

\* clear() has acted on a node that was linked in a list: the node is
\* isolated while its former neighbour still points at it
C20_Witness ==
    \E it \in Nodes :
        /\ next[it] = it
        /\ prev[it] = it
        /\ \E x \in DOMAIN next \ {it} : next[x] = it

\* C21: detach() on a node for which is_locked() is true does not return,
\* whether the node is free or was locked while linked in a list: the
\* assert comes before the first write, so no link is modified; on a node
\* of a list that is not locked the call returns.
C21_LockedDetachRejected ==
    \A it \in Nodes :
        /\ Dllink_is_locked(H, it) => ~ENABLED Detach(it)
        /\ (Resident(it) /\ ~Dllink_is_locked(H, it)) => ENABLED Detach(it)

\* a node locked while linked in the waiting list and a node on which
\* clear() was called
C21_Witness ==
    /\ \E it \in Nodes : Dllink_is_locked(H, it) /\ prev[it] = waiting_list
    /\ \E it \in Nodes : Dllink_is_locked(H, it) /\ prev[it] = it

\* the sequence s without its last element
front(s) == SubSeq(s, 1, Len(s) - 1)

\* the lists a caller owns: the waiting list and the buckets of the nodes
lists == Heads \ {bucket(0)}

\* C22: read from head.next to head.prev, a list is a double-ended queue:
\* in every state reached by appends and pops on cleared lists, append of a
\* node that is in no list adds it at the end of the sequence of members,
\* appendleft adds it at the front, popleft returns the first member and
\* leaves the rest, pop returns the last member and leaves the others.
C22_Deque ==
    \A head \in lists :
        LET m == Members(head)
        IN  /\ \A it \in Nodes : ~Resident(it) =>
                  /\ Dllist_iter(Dllist_append(H, head, it), head)
                        = Append(m, it)
                  /\ Dllist_iter(Dllist_appendleft(H, head, it), head)
                        = <<it>> \o m
            /\ m # <<>> =>
                  /\ Dllist_popleft(H, head).res = Head(m)
                  /\ Dllist_iter(Dllist_popleft(H, head).heap, head) = Tail(m)
                  /\ Dllist_pop(H, head).res = m[Len(m)]
                  /\ Dllist_iter(Dllist_pop(H, head).heap, head) = front(m)

\* pop or popleft has returned one of two members of the waiting list
C22_Witness ==
    /\ res \in Nodes
    /\ ~Resident(res)
    /\ Len(Members(waiting_list)) >= 1
    /\ \A it \in Nodes : ~InQueue(it)

\* C23: for a list on which clear() was called, in every state reached by
\* append, appendleft, popleft, pop and detach of members, is_empty() is
\* true exactly when the list has no member, and then head.prev == head as
\* well; it is false after an insertion, and after a pop or a detach it is
\* true exactly when the node taken was the only member.
C23_EmptyIff ==
    \A head \in lists :
        LET m == Members(head)
        IN  /\ Dllist_is_empty(H, head) <=> m = <<>>
            /\ Dllist_is_empty(H, head) <=> prev[head] = head
            /\ Dllist_is_empty(H, head) <=>
                  \A it \in Nodes : head \notin lists_of(it)
            /\ \A it \in Nodes : ~Resident(it) =>
                  /\ ~Dllist_is_empty(Dllist_append(H, head, it), head)
                  /\ ~Dllist_is_empty(Dllist_appendleft(H, head, it), head)
            /\ m # <<>> =>
                  /\ Dllist_is_empty(Dllist_popleft(H, head).heap, head)
                        <=> Len(m) = 1
                  /\ Dllist_is_empty(Dllist_pop(H, head).heap, head)
                        <=> Len(m) = 1
                  /\ \A j \in 1..Len(m) :
                        Dllist_is_empty(Dllink_detach(H, m[j]), head)
                           <=> Len(m) = 1

\* the waiting list is empty again after its only member was taken out,
\* while a bucket holds a node
C23_Witness ==
    /\ Dllist_is_empty(H, waiting_list)
    /\ \E it \in Nodes : ~Resident(it) /\ next[it] = waiting_list
    /\ \E head \in lists : ~Dllist_is_empty(H, head)

\* the walk from at along prev until it meets link, cut off after fuel items
RECURSIVE walk_back(_, _, _, _)
walk_back(h, link, at, fuel) ==
    IF at = link \/ fuel = 0 \/ at \notin DOMAIN h.prev
    THEN <<>>
    ELSE walk_back(h, link, h.prev[at], fuel - 1) \o <<at>>

\* C24: the iteration over a list that is not changed meanwhile yields
\* nodes only, never the head, each member once; the first item is
\* head.next, every item is followed by its next, the last item is
\* head.prev and its next is the head, where the iteration ends: the items
\* are the members in the order head.next .. head.prev, as many as the walk
\* back from head.prev finds, and none for an empty list.
C24_Iteration ==
    \A head \in lists :
        LET m == Members(head)
            k == Len(m)
        IN  /\ \A j \in 1..k : m[j] \in Nodes
            /\ Cardinality(MemberSet(head)) = k
            /\ k = 0 <=> Dllist_is_empty(H, head)
            /\ k > 0 =>
                  /\ m[1] = next[head]
                  /\ m[k] = prev[head]
                  /\ next[m[k]] = head
                  /\ \A j \in 1..(k - 1) : next[m[j]] = m[j + 1]
            /\ m = walk_back(H, head, prev[head], Cardinality(Nodes) + 1)

\* a list of two or more members
C24_Witness ==
    \E head \in lists : Len(Members(head)) >= 2

\* C25: append and appendleft test no lock: for a node that is in no list
\* and for which is_locked() is true (after clear() or lock()), append and
\* appendleft of the queue return for every key of a..b, and after append
\* or appendleft on the waiting list or on the bucket the node is a member
\* of that list, once, and is_locked() is false for it.
C25_AppendUnlocks ==
    \A it \in Nodes : (Dllink_is_locked(H, it) /\ ~Resident(it)) =>
        /\ \A k \in Keys :
              /\ ENABLED BPQueue_append(it, k)
              /\ ENABLED BPQueue_appendleft(it, k)
        /\ \A head \in lists :
              LET g  == Dllist_append(H, head, it)
                  gl == Dllist_appendleft(H, head, it)
              IN  /\ ~Dllink_is_locked(g, it)
                  /\ ~Dllink_is_locked(gl, it)
                  /\ Dllist_iter(g, head) = Append(Members(head), it)
                  /\ Dllist_iter(gl, head) = <<it>> \o Members(head)

\* locked nodes that are in no list: one left by lock(), one by clear()
C25_Witness ==
    /\ \E it \in Nodes :
          /\ Dllink_is_locked(H, it)
          /\ ~Resident(it)
          /\ prev[it] # it
    /\ \E it \in Nodes :
          /\ Dllink_is_locked(H, it)
          /\ ~Resident(it)
          /\ prev[it] = it

\* what C26 says of the state after modify_key(it, delta) on a node of the
\* waiting list
moved_to_queue(it, delta) ==
    LET idx == data0[it] + delta
    IN  /\ data0' = [data0 EXCEPT ![it] = idx]
        /\ Dllist_iter(H', waiting_list) = without(Members(waiting_list), it)
        /\ elems(Dllist_iter(H', bucket(idx))) = MemberSet(bucket(idx)) \cup {it}
        /\ \A i \in (1..high) \ {idx} :
              Dllist_iter(H', bucket(i)) = Members(bucket(i))
        /\ max' = IF max > idx THEN max ELSE idx
        /\ max' > 0

\* C26: modify_key(it, delta) with delta # 0 on an unlocked node of the
\* waiting list whose stored index i has 1 <= i + delta <= high returns,
\* and every such call leaves the node out of the waiting list and in
\* bucket i + delta, the other members of both and the other buckets as
\* they were, and max at the larger of max and i + delta, so the queue is
\* not empty.
C26_FromWaitingList ==
    \A it \in Nodes, delta \in (0 - high)..high :
        ( /\ InList(it)
          /\ ~Dllink_is_locked(H, it)
          /\ delta # 0
          /\ data0[it] + delta \in 1..high ) =>
            /\ ENABLED BPQueue_modify_key(it, delta)
            /\ ~ENABLED (BPQueue_modify_key(it, delta)
                            /\ ~moved_to_queue(it, delta))

\* the only member of the waiting list carries an index of 2 or more from
\* an earlier stay in the queue, which is empty now: modify_key can move it
\* up or down
C26_Witness ==
    /\ max = 0
    /\ \E it \in Nodes :
          /\ Members(waiting_list) = <<it>>
          /\ data0[it] \in 2..(high - 1)

\* what C27 says of the state after clear()
cleared ==
    /\ max' = 0
    /\ offset' + max' = offset
    /\ \A i \in 1..high : Dllist_is_empty(H', bucket(i))
    /\ Dllist_iter(H', bucket(0)) = <<sentinel>>
    /\ clear_loop(H', max') = H'

\* C27: in every state clear() returns, and it leaves max = 0 (is_empty()
\* true, get_max() = offset), every bucket 1..high empty and bucket 0
\* holding the sentinel; another clear() would change nothing.
C27_AsStated ==
    /\ ENABLED BPQueue_clear
    /\ ~ENABLED (BPQueue_clear /\ ~cleared)

direct_by_key(it) ==
    LET idx == data0[it] - offset
    IN  /\ data0' = [data0 EXCEPT ![it] = idx]
        /\ Dllist_iter(H', bucket(idx)) = <<it>> \o Members(bucket(idx))
        /\ \A i \in (1..high) \ {idx} :
              Dllist_iter(H', bucket(i)) = Members(bucket(i))
        /\ max' = IF max < idx THEN idx ELSE max

---------------------------------------------------------------------------
(* ShiftArray, src/src/array_like.rs                                       *)

\* the longest Vec a caller wraps
MaxLen == 3

\* the Vecs of the callers, with the first two values of test_shift_array
Vecs == UNION {[1..n -> {2, 3}] : n \in 0..MaxLen}

\* no queue is in use
no_queue ==
    /\ next = <<>>
    /\ prev = <<>>
    /\ data0 = <<>>
    /\ max = 0
    /\ offset = 0
    /\ high = 0
    /\ res = NULL
    /\ range = <<0, 0>>
    /\ script = <<>>
    /\ pc = 0
    /\ out = <<>>

queue == <<next, prev, data0, max, offset, high, res, range, script, pc, out>>

ShiftArray_len == Len(lst)

\* a[key] is lst[key - start]; the subtraction and the index are checked
ShiftArray_index_ok(key) == key >= start /\ key - start < Len(lst)

ShiftArray_index(key) == lst[key - start + 1]

\* ShiftArray::new(v)
InitArray ==
    /\ lst \in Vecs
    /\ start = 0
    /\ current = -1
    /\ yielded = <<>>
    /\ ended = FALSE
    /\ cycle = [next |-> <<>>, data |-> <<>>]
    /\ robin_cur = NULL
    /\ robin_stop = NULL
    /\ no_queue
    /\ no_work

\* a.set_start(s)
ShiftArray_set_start ==
    /\ current = -1
    /\ \E s \in 0..(MaxLen + 1) : start' = s
    /\ UNCHANGED <<lst, current, yielded, ended, cycle, robin_cur, robin_stop,
                   queue, work>>

\* a.iter()
ShiftArray_iter ==
    /\ current = -1
    /\ current' = start
    /\ UNCHANGED <<lst, start, yielded, ended, cycle, robin_cur, robin_stop,
                   queue, work>>

\* one call of ShiftArrayIterator::next
ShiftArrayIterator_next ==
    /\ current >= 0
    /\ ~ended
    /\ IF current < Len(lst)
       THEN /\ yielded' = Append(yielded, lst[current + 1])
            /\ current' = current + 1
            /\ ended' = FALSE
       ELSE /\ ended' = TRUE
            /\ UNCHANGED <<yielded, current>>
    /\ UNCHANGED <<lst, start, cycle, robin_cur, robin_stop, queue, work>>

NextArray ==
    \/ ShiftArray_set_start
    \/ ShiftArray_iter
    \/ ShiftArrayIterator_next

SpecArray == InitArray /\ [][NextArray]_vars

\* C29: when the iteration of a.iter() has ended it has yielded len()
\* items, the j-th of them equal to a[start + j], for every start that
\* set_start has set.
C29_AsStated ==
    ended =>
        /\ Len(yielded) = ShiftArray_len
        /\ \A j \in 0..(Len(yielded) - 1) :
              /\ ShiftArray_index_ok(start + j)
              /\ yielded[j + 1] = ShiftArray_index(start + j)

---------------------------------------------------------------------------
(* Robin, src/src/robin.rs; an SlNode is named by its address: slot(k) is  *)
(* cycle[k], box(j) the j-th Box the program allocates                     *)

\* the largest num_parts a caller passes to Robin::new
MaxParts == 9

slot(k) == <<"cycle", k>>

box(j) == <<"box", j>>

\* the nodes owned through x: x and the boxes behind it
RECURSIVE owned(_, _)
owned(c, x) ==
    IF x = NULL THEN <<>> ELSE <<x>> \o owned(c, c.next[x])

\* Box::new(x.clone()): the derived Clone copies x and every box behind it;
\* the copies are the boxes f, f + 1, ...
SlNode_clone(c, x, f) ==
    LET ch    == owned(c, x)
        last  == f + Len(ch) - 1
        fresh == {box(j) : j \in f..last}
    IN  [next |-> [b \in fresh |-> IF b[2] < last THEN box(b[2] + 1) ELSE NULL]
                     @@ c.next,
         data |-> [b \in fresh |-> c.data[ch[b[2] - f + 1]]] @@ c.data]

\* for sl1 in &cycle { sl2.next = Some(Box::new(sl1.clone()));
\*                     sl2 = sl2.next.as_mut().unwrap(); }
RECURSIVE new_loop(_, _, _, _, _)
new_loop(c, sl2, f, k, n) ==
    IF k = n THEN c
    ELSE LET c1 == SlNode_clone(c, slot(k), f)
             c2 == [c1 EXCEPT !.next[sl2] = box(f)]
         IN  new_loop(c2, box(f), f + Len(owned(c, slot(k))), k + 1, n)

\* Robin::new(num_parts), num_parts >= 1
Robin_new(num_parts) ==
    LET slots == {slot(k) : k \in 0..(num_parts - 1)}
        c0    == [next |-> [x \in slots |-> NULL], data |-> [x \in slots |-> x[2]]]
    IN  new_loop(c0, slot(num_parts - 1), 0, 0, num_parts)

\* cycle.len()
num_parts == Cardinality({x \in DOMAIN cycle.next : x[1] = "cycle"})

InitRobin ==
    /\ \E n \in 1..MaxParts : cycle = Robin_new(n)
    /\ robin_cur = NULL
    /\ robin_stop = NULL
    /\ yielded = <<>>
    /\ ended = FALSE
    /\ lst = <<>>
    /\ start = 0
    /\ current = -1
    /\ no_queue
    /\ no_work

\* r.exclude(from_part)
Robin_exclude ==
    /\ robin_cur = NULL
    /\ \E from_part \in 0..(num_parts - 1) :
          /\ robin_cur' = slot(from_part)
          /\ robin_stop' = slot(from_part)
    /\ UNCHANGED <<cycle, yielded, ended, lst, start, current, queue, work>>

\* one call of RobinIterator::next; unwrap() of a next that is None panics
RobinIterator_next ==
    /\ robin_cur # NULL
    /\ ~ended
    /\ cycle.next[robin_cur] # NULL
    /\ robin_cur' = cycle.next[robin_cur]
    /\ IF cycle.next[robin_cur] # robin_stop
       THEN /\ yielded' = Append(yielded, cycle.data[cycle.next[robin_cur]])
            /\ ended' = FALSE
       ELSE /\ ended' = TRUE
            /\ UNCHANGED yielded
    /\ UNCHANGED <<cycle, robin_stop, lst, start, current, queue, work>>

NextRobin ==
    \/ Robin_exclude
    \/ RobinIterator_next

SpecRobin == InitRobin /\ [][NextRobin]_vars

\* the parts after p in cyclic order, p itself left out
round(n, p) == [j \in 1..(n - 1) |-> (p + j) % n]

\* C30: the iteration of Robin::new(n).exclude(p) yields p+1, p+2, ...
\* modulo n, the n - 1 parts other than p, each once, and then ends: every
\* call of next returns, what has been yielded so far is the beginning of
\* that sequence, and when the iteration has ended it is all of it.
C30_AsStated ==
    robin_cur # NULL =>
        LET e == round(num_parts, robin_stop[2])
        IN  /\ Len(yielded) <= Len(e)
            /\ yielded = SubSeq(e, 1, Len(yielded))
            /\ ended => yielded = e
            /\ ~ended => ENABLED RobinIterator_next

---------------------------------------------------------------------------
(* Calls that panic: the state they leave behind *)

\* what the caller can observe of the queue and of its nodes
queue_state == <<next, prev, data0, max>>

\* decrease_key up to the panic: it.detach() has run; a build with overflow
\* checks panics in `it.data.0 -= delta` when delta > data.0, before the
\* store; otherwise data.0 holds the difference when one of the two asserts
\* fails
BPQueue_decrease_key_rejected(it, delta) ==
    LET h1  == Dllink_detach(H, it)
        idx == wrapping_sub(data0[it], delta)
    IN  /\ ~Dllink_is_locked(H, it)
        /\ next' = h1.next
        /\ prev' = h1.prev
        /\ \/ delta > data0[it] /\ data0' = data0
           \/ ~(idx > 0 /\ idx <= high) /\ data0' = [data0 EXCEPT ![it] = idx]
        /\ UNCHANGED <<max, res, params>>

\* increase_key up to the panic, in the same way
BPQueue_increase_key_rejected(it, delta) ==
    LET h1  == Dllink_detach(H, it)
        idx == wrapping_add(data0[it], delta)
    IN  /\ ~Dllink_is_locked(H, it)
        /\ next' = h1.next
        /\ prev' = h1.prev
        /\ \/ data0[it] + delta >= usize_range /\ data0' = data0
           \/ ~(idx > 0 /\ idx <= high) /\ data0' = [data0 EXCEPT ![it] = idx]
        /\ UNCHANGED <<max, res, params>>

\* append and appendleft up to the panic: assert!(k > self.offset) fails
\* before anything is written; for an index above high + 1 data.0 and max
\* are written before self.bucket[it.data.0] is out of bounds
BPQueue_append_rejected(it, k) ==
    LET idx == k - offset
    IN  \/ k <= offset /\ UNCHANGED <<queue_state, res, params>>
        \/ /\ k > offset
           /\ idx > high + 1
           /\ data0' = [data0 EXCEPT ![it] = idx]
           /\ max' = IF max < idx THEN idx ELSE max
           /\ UNCHANGED <<next, prev, res, params>>

\* popleft up to the panic of the loop that lowers max below 0: the first
\* item of bucket[max] has been detached; max is 0 where a build with
\* overflow checks panics in `self.max -= 1`, and the wrapped value where
\* the indexing of the Vec panics.  An item in dead storage (the sentinel
\* of the local of new) is read as the bytes left there, or as a locked
\* node, in which case the assert of detach fires first
BPQueue_popleft_rejected ==
    LET it == next[bucket(max)]
    IN  IF it \in DOMAIN next
        THEN LET r == Dllist_popleft(H, bucket(max))
             IN  /\ ~Dllink_is_locked(H, it)
                 /\ rewind(r.heap, max) < 0
                 /\ next' = r.heap.next
                 /\ prev' = r.heap.prev
                 /\ max' \in {0, usize_range - 1}
                 /\ UNCHANGED <<data0, res, params>>
        ELSE \/ /\ next' = Dllist_clear(H, bucket(max)).next
                /\ prev' = Dllist_clear(H, bucket(max)).prev
                /\ rewind(Dllist_clear(H, bucket(max)), max) < 0
                /\ max' \in {0, usize_range - 1}
                /\ UNCHANGED <<data0, res, params>>
             \/ UNCHANGED <<queue_state, res, params>>

---------------------------------------------------------------------------
(* Calls on a list without the caller's precondition *)

\* popleft that detaches head.next without the assert of detach
Dllist_popleft_call_unchecked(head) ==
    LET r == Dllist_popleft(H, head)
    IN  /\ res' = r.res
        /\ next' = r.heap.next
        /\ prev' = r.heap.prev
        /\ UNCHANGED <<data0, max, params>>

\* list.popleft() on any list: let res = self.head.next; (*res).detach()
Dllist_popleft_call(head) ==
    LET r == Dllist_popleft(H, head)
    IN  /\ Dllink_detach_asserts(H, r.res)
        /\ res' = r.res
        /\ next' = r.heap.next
        /\ prev' = r.heap.prev
        /\ UNCHANGED <<data0, max, params>>

\* list.pop() on any list: let res = self.head.prev; (*res).detach()
Dllist_pop_call(head) ==
    LET r == Dllist_pop(H, head)
    IN  /\ Dllink_detach_asserts(H, r.res)
        /\ res' = r.res
        /\ next' = r.heap.next
        /\ prev' = r.heap.prev
        /\ UNCHANGED <<data0, max, params>>

---------------------------------------------------------------------------
(* A loop over a list that moves items to another list *)

\* the body without the detach: the item is appended while still linked
move_linked(h, it, dst) == Dllist_append(h, dst, it)

\* it.detach(); dst.append(it) on the item the iterator has just yielded
move(h, it, dst) == Dllist_append(Dllink_detach(h, it), dst, it)

\* for it in src.iter_mut() { if it is one of taken { move it to dst } }:
\* next() stores (*cur).next in cur before it returns cur, then the body
\* runs; the result is the items yielded and the heap at the end (fuel
\* bounds a walk that does not come back to link)
RECURSIVE iter_moving(_, _, _, _, _, _)
iter_moving(h, link, at, taken, dst, fuel) ==
    IF at = link \/ fuel = 0 \/ at \notin DOMAIN h.next
    THEN [yielded |-> <<>>, heap |-> h]
    ELSE LET after == h.next[at]
             h1    == IF at \in taken /\ Dllink_detach_asserts(h, at)
                      THEN move(h, at, dst) ELSE h
             r     == iter_moving(h1, link, after, taken, dst, fuel - 1)
         IN  [yielded |-> <<at>> \o r.yielded, heap |-> r.heap]

\* the list is a closed ring in h: head and members point at each other
ring(h, head) ==
    \A n \in {head} \cup elems(Dllist_iter(h, head)) :
        /\ h.next[n] \in DOMAIN h.prev
        /\ h.prev[n] \in DOMAIN h.next
        /\ h.prev[h.next[n]] = n
        /\ h.next[h.prev[n]] = n

\* where the loop over src moves its items: the waiting list, or bucket 1
\* for the loop over the waiting list
other_list(src) == IF src = waiting_list THEN bucket(1) ELSE waiting_list

---------------------------------------------------------------------------
(* set_key *)

\* it.data.0 = (gain - self.offset) as usize: the cast of a negative i32
\* gives the value modulo the range of usize; no link and no max is written
BPQueue_set_key(it, gain) ==
    /\ data0' = [data0 EXCEPT ![it] = (gain - offset) % usize_range]
    /\ res' = NULL
    /\ UNCHANGED <<next, prev, max, params>>

\* bpq.set_key(&mut it, gain) on any node of the caller, in a list or not
\* (test_bpqueue1 calls it on a node of the queue), with a key of a..b
QSetKey ==
    /\ \E it \in Nodes, gain \in Keys : BPQueue_set_key(it, gain)
    /\ UNCHANGED <<test, wheel, work>>

\* a caller of the methods of the queue, set_key among them
NextSetKey ==
    \/ NextQueue
    \/ QSetKey

SpecSetKey == Init /\ [][NextSetKey]_vars

---------------------------------------------------------------------------
(* A caller that counts the work the calls do on max *)

\* the amount by which `if self.max < it.data.0 { self.max = it.data.0; }`
\* raises max for the index idx
raise(idx) == IF max < idx THEN idx - max ELSE 0

\* the number of times `while self.bucket[self.max].is_empty()
\* { self.max -= 1; }` runs its body from max = m on the heap h
RECURSIVE rewind_steps(_, _)
rewind_steps(h, m) ==
    IF m <= 0 \/ ~Dllist_is_empty(h, bucket(m)) THEN 0
    ELSE 1 + rewind_steps(h, m - 1)

\* the call has raised max by up and has run `self.max -= 1` down times
counted(up, down) ==
    /\ raised' = raised + up
    /\ lowered' = lowered + down

WorkAppend ==
    \E it \in Nodes, k \in Keys :
        /\ ~Resident(it)
        /\ raised + raise(k - offset) <= MaxWork
        /\ BPQueue_append(it, k)
        /\ counted(raise(k - offset), 0)
        /\ UNCHANGED <<test, wheel>>

WorkAppendLeft ==
    \E it \in Nodes, k \in Keys :
        /\ ~Resident(it)
        /\ raised + raise(k - offset) <= MaxWork
        /\ BPQueue_appendleft(it, k)
        /\ counted(raise(k - offset), 0)
        /\ UNCHANGED <<test, wheel>>

WorkPopLeft ==
    /\ ~BPQueue_is_empty
    /\ BPQueue_popleft
    /\ counted(0, rewind_steps(Dllist_popleft(H, bucket(max)).heap, max))
    /\ UNCHANGED <<test, wheel>>

WorkDetach ==
    \E it \in Nodes :
        /\ InQueue(it)
        /\ BPQueue_detach(it)
        /\ counted(0, rewind_steps(Dllink_detach(H, it), max))
        /\ UNCHANGED <<test, wheel>>

WorkIncreaseKey ==
    \E it \in Nodes, delta \in 0..high :
        /\ Resident(it)
        /\ data0[it] + delta \in 1..high
        /\ raised + raise(data0[it] + delta) <= MaxWork
        /\ BPQueue_increase_key(it, delta)
        /\ counted(raise(data0[it] + delta), 0)
        /\ UNCHANGED <<test, wheel>>

\* decrease_key returns after it has raised max, and runs the loop otherwise
WorkDecreaseKey ==
    \E it \in Nodes, delta \in 0..high :
        LET idx == data0[it] - delta
            h2  == Dllist_append(Dllink_detach(H, it), bucket(idx), it)
        IN  /\ Resident(it)
            /\ idx \in 1..high
            /\ raised + raise(idx) <= MaxWork
            /\ BPQueue_decrease_key(it, delta)
            /\ IF max < idx
               THEN counted(idx - max, 0)
               ELSE counted(0, rewind_steps(h2, max))
            /\ UNCHANGED <<test, wheel>>

\* clear runs `self.max -= 1` once for every index from max down to 1
WorkClear ==
    /\ BPQueue_clear
    /\ counted(0, max)
    /\ UNCHANGED <<test, wheel>>

\* the calls that move max, and the waiting list from which a key operation
\* brings a node into the queue
NextWork ==
    \/ WorkAppend
    \/ WorkAppendLeft
    \/ WorkPopLeft
    \/ WorkDetach
    \/ WorkIncreaseKey
    \/ WorkDecreaseKey
    \/ WorkClear
    \/ ListAppend

SpecWork == Init /\ [][NextWork]_vars

---------------------------------------------------------------------------
(* Claims C31.. *)

\* C31: a call of increase_key past high, of decrease_key to an index <= 0
\* or of append/appendleft with a key outside a..b that is rejected leaves
\* the queue as it was before the call: no node is unlinked, no data.0 has
\* changed and max is unchanged.
C31_AsStated ==
    /\ \A it \in Nodes, delta \in 0..(high + 2) :
          Resident(it) =>
              /\ ~ENABLED (/\ BPQueue_increase_key_rejected(it, delta)
                           /\ ~(UNCHANGED queue_state))
              /\ ~ENABLED (/\ BPQueue_decrease_key_rejected(it, delta)
                           /\ ~(UNCHANGED queue_state))
    /\ \A it \in Nodes, k \in (offset - 1)..(offset + high + 3) :
          ~Resident(it) =>
              ~ENABLED (/\ BPQueue_append_rejected(it, k)
                        /\ ~(UNCHANGED queue_state))

\* C32: popleft on an empty queue (max == 0) is rejected with bucket 0 as
\* it was, the sentinel still its item: no rejected call has written a
\* link, and no call returns.
C32_AsStated ==
    BPQueue_is_empty =>
        /\ ~ENABLED (BPQueue_popleft_rejected /\ ~(UNCHANGED <<next, prev>>))
        /\ ~ENABLED BPQueue_popleft

\* C33: on an empty list that has been cleared (the waiting list, a bucket
\* above 0) popleft() and pop() do not return: the node they pass to detach
\* is the head itself, which is locked, so the assert of detach fires before
\* a link is written, and the list is empty with head.next == head ==
\* head.prev.
C33_EmptyPopRejected ==
    \A head \in lists :
        Dllist_is_empty(H, head) =>
            /\ ~ENABLED Dllist_popleft_call(head)
            /\ ~ENABLED Dllist_pop_call(head)
            /\ Dllist_popleft(H, head).res = head
            /\ Dllist_pop(H, head).res = head
            /\ ~Dllink_detach_asserts(H, head)
            /\ next[head] = head
            /\ prev[head] = head

\* the waiting list is empty after its only member was popped: the node
\* returned still points at the head
C33_Witness ==
    /\ Dllist_is_empty(H, waiting_list)
    /\ res \in Nodes
    /\ next[res] = waiting_list
    /\ prev[res] = waiting_list

\* every node but `it` is where it was: the same nodes are in the queue, each
\* with its data.0, and every list holds its other members in their order
others_kept(it) ==
    /\ queued(H') \ {it} = queued(H) \ {it}
    /\ \A n \in Nodes \ {it} : data0'[n] = data0[n]
    /\ \A head \in lists :
          without(Dllist_iter(H', head), it) = without(Members(head), it)

C35_MoveWhileIterating ==
    \A src \in lists :
        LET dst == other_list(src)
            m   == Members(src)
        IN  \A taken \in SUBSET elems(m) :
                LET r == iter_moving(H, src, next[src], taken, dst,
                                     Cardinality(Nodes) + 1)
                    kept(x)  == x \notin taken
                    moved(x) == x \in taken
                IN  /\ r.yielded = m
                    /\ ring(r.heap, src)
                    /\ ring(r.heap, dst)
                    /\ Dllist_iter(r.heap, src) = SelectSeq(m, kept)
                    /\ Dllist_iter(r.heap, dst) =
                          Members(dst) \o SelectSeq(m, moved)

\* a list of two members, the first of which the loop moves while the
\* second stays
C35_Witness ==
    \E src \in lists :
        /\ Len(Members(src)) >= 2
        /\ iter_moving(H, src, next[src], {Members(src)[1]}, other_list(src),
                       Cardinality(Nodes) + 1).yielded = Members(src)

\* C37: in every state each node linked in a bucket i >= 1 has data.0 == i
\* and 1 <= i <= high, so that its key is offset + i, whichever methods of
\* the queue were called, set_key among them.
C37_AsStated ==
    \A i \in 1..(high + 1) :
        \A n \in MemberSet(bucket(i)) :
            /\ data0[n] = i
            /\ i <= high

\* C38: in every state with is_empty() false, also after lock() on a node
\* that is still linked in a bucket, popleft returns, and what it returns is
\* a node of bucket[max].
C38_AsStated ==
    ~BPQueue_is_empty =>
        /\ ENABLED BPQueue_popleft
        /\ ~ENABLED (BPQueue_popleft /\ res' \notin MemberSet(bucket(max)))

\* the call has left max and the members of every bucket, in their order,
\* as they were
queue_kept ==
    /\ max' = max
    /\ \A i \in 0..(high + 1) :
          Dllist_iter(H', bucket(i)) = Members(bucket(i))

\* C39: a node that popleft, detach or clear has taken out of the queue (it
\* is in no list and its links are not null) has no effect on the queue any
\* more: detach and modify_key called on it before it is appended again
\* leave max and every bucket's members and their order unchanged.
C39_AsStated ==
    \A it \in Nodes :
        (~Resident(it) /\ next[it] # NULL) =>
            /\ ~ENABLED (BPQueue_detach(it) /\ ~queue_kept)
            /\ \A delta \in (0 - high)..high :
                  ~ENABLED (BPQueue_modify_key(it, delta) /\ ~queue_kept)

\* C40: for every delta a usize holds, increase_key and decrease_key on a
\* node of the queue either do not return or leave the node at the exact
\* index data.0 + delta, resp. data.0 - delta: no sum or difference that
\* has wrapped around is taken for an index of 1..high.
C40_AsStated ==
    \A it \in queued(H), delta \in 0..(usize_range - 1) :
        /\ ~ENABLED (/\ BPQueue_increase_key(it, delta)
                     /\ data0'[it] # data0[it] + delta)
        /\ ~ENABLED (/\ BPQueue_decrease_key(it, delta)
                     /\ data0'[it] # data0[it] - delta)

\* C36: over every sequence of calls on a new queue, the number of times
\* popleft, detach, decrease_key and clear have run `self.max -= 1` never
\* exceeds the sum of the amounts by which append, appendleft, increase_key
\* and decrease_key have raised max; the difference of the two is max.
C36_Amortised ==
    /\ lowered <= raised
    /\ raised - lowered = max

\* calls have lowered max step by step to 0, every step paid by an earlier
\* raise
C36_Witness ==
    /\ lowered >= 2
    /\ lowered = raised
====
